---- MODULE Spec2Model ----
(***************************************************************************)
(* Model of the lead-gen scraper: Phase 1 (clean) as written in            *)
(* Phase1_scraper.py (main / clean_ads) and in streamlit_UI.py             *)
(* (scrape_meta_ads), and Phase 2 (enrich_facebook_pages).                 *)
(*                                                                         *)
(* Python values are tagged records: a missing key, None, a str (a         *)
(* sequence of one-character strings), a dict (of the one key the code     *)
(* reads from it) and "other" (a truthy value that is neither a str nor a  *)
(* dict, such as 7).                                                       *)
(***************************************************************************)
EXTENDS Integers, Sequences, FiniteSets, TLC

VARIABLES
    variant,    \* which program runs: "cli" (main), "ui" (scrape_meta_ads), "strict", "enrich"
    pc,         \* the position in it
    run,        \* what the actor call returned (NoRun before the call)
    items,      \* the raw records fetched from the dataset
    idx,        \* how many records (rows) the loop has consumed
    seen,       \* the loop's seen set
    clean,      \* the loop's clean list
    origin,     \* history: for each row of clean, the index of its record in items
    stored,     \* results/ads_cleaned.csv
    prior,      \* history: results/ads_cleaned.csv before the run
    msgs,       \* what was printed or shown (st.error, st.warning)
    df,         \* enrich_facebook_pages: the rows given
    enriched,   \* enrich_facebook_pages: the enriched list
    lookups,    \* history: per lookup invoked, the row, its key and its outcome
    storedE     \* results/enriched_pages.csv

vars == <<variant, pc, run, items, idx, seen, clean, origin, stored, prior, msgs,
          df, enriched, lookups, storedE>>

\* ------------------------------------------------------------ bounds

\* Longest list of raw ad records the ad-search collaborator returns.
MaxItems == 3

\* Longest table of clean rows handed to the enrichment.
MaxRows == 3

\* ------------------------------------------------------- Python values

Absent == [t |-> "absent"]
None == [t |-> "none"]
Other == [t |-> "other"]
Str(s) == [t |-> "str", s |-> s]
Dict(v) == [t |-> "dict", v |-> v]
EmptyStr == Str(<< >>)
EmptyDict == Dict(Absent)

IsStr(v) == v.t = "str"
IsDict(v) == v.t = "dict"

\* bool(v): None, "" and {} are falsy.
Truthy(v) ==
    CASE v.t = "str" -> v.s # << >>
      [] v.t = "dict" -> v.v # Absent
      [] v.t = "other" -> TRUE
      [] OTHER -> FALSE

\* d.get(key): None when the key is missing.
Get(v) == IF v = Absent THEN None ELSE v

\* d.get(key, default): the default only when the key is missing.
GetD(v, default) == IF v = Absent THEN default ELSE v

\* a or b
Or(a, b) == IF Truthy(a) THEN a ELSE b

\* --------------------------------------------------------- str methods

IsSpace(c) == c = " "

RECURSIVE LStrip(_)
LStrip(s) ==
    IF s = << >> THEN s
    ELSE IF IsSpace(Head(s)) THEN LStrip(Tail(s)) ELSE s

RECURSIVE RStrip(_)
RStrip(s) ==
    IF s = << >> THEN s
    ELSE IF IsSpace(s[Len(s)]) THEN RStrip(SubSeq(s, 1, Len(s) - 1)) ELSE s

\* s.strip()
Strip(s) == RStrip(LStrip(s))

\* s.replace(' ', '')
RemoveSpaces(s) == SelectSeq(s, LAMBDA c : c # " ")

NA == <<"N", "/", "A">>

\* f"https://www.facebook.com/{page.replace(' ', '')}"
WwwUrl(page) == Str(<<"https://www.facebook.com/">> \o RemoveSpaces(page.s))

\* f"https://facebook.com/{page.replace(' ', '')}"
BareUrl(page) == Str(<<"https://facebook.com/">> \o RemoveSpaces(page.s))

\* ------------------------------------------------------ raw ad records

Ad(pageName, page_name, pageUrl, adText, snapshot) ==
    [pageName |-> pageName, page_name |-> page_name, pageUrl |-> pageUrl,
     adText |-> adText, snapshot |-> snapshot]

\* {"body": {"text": v}}
Nested(v) == Dict(Dict(v))

\* The raw records the ad-search collaborator may return: both identity
\* keys, a direct and a nested body text, and the malformed shapes.
RawAds ==
    { Ad(Str(<<"A">>), Absent, Absent, Str(<<" ", "h", "i", " ">>), Absent),
      Ad(Str(<<"A">>), Absent, Absent, Str(<<"x">>), Absent),
      Ad(Absent, Str(<<"B">>), Absent, Absent, Nested(Str(<<" ", "b">>))),
      Ad(EmptyStr, Str(<<"B">>), Absent, Absent, Absent),
      Ad(Str(<<"B">>), Absent, Str(<<"u">>), None, None),
      Ad(Str(<<"B">>), Absent, Absent, Str(<<" ">>), Absent),
      Ad(Str(<<"A", " ", "B">>), Str(<<"B">>), Absent, Str(<<"?", "?", "?">>), Absent),
      Ad(Absent, Absent, Absent, Str(<<"x">>), Absent),
      Ad(None, EmptyStr, Str(<<"u">>), Str(<<"x">>), Nested(Str(<<"b">>))),
      Ad(Absent, None, Absent, Absent, Other),
      Ad(Str(<<"A">>), Absent, Absent, Absent, Other),
      Ad(Str(<<"B">>), Absent, Absent, EmptyStr, Dict(Other)),
      Ad(Str(<<"A">>), Absent, Absent, Absent, Nested(None)),
      Ad(Other, Absent, Absent, Str(<<"x">>), Absent) }

RECURSIVE SeqsUpTo(_, _)
SeqsUpTo(S, n) ==
    IF n = 0 THEN { << >> }
    ELSE LET shorter == SeqsUpTo(S, n - 1)
         IN  shorter \cup { Append(q, x) : q \in { r \in shorter : Len(r) = n - 1 }, x \in S }

\* ---------------------------------------------------- field extraction

\* page = ad.get("pageName") or ad.get("page_name")
Identity(ad) == Or(Get(ad.pageName), Get(ad.page_name))

Raised == [raised |-> TRUE]
Value(v) == [raised |-> FALSE, v |-> v]

\* clean_ads: url = ad.get("pageUrl"), synthesized from the page when empty.
CliUrl(ad, page) ==
    LET url == Get(ad.pageUrl)
    IN  IF ~Truthy(url) /\ Truthy(page)
        THEN IF IsStr(page) THEN Value(WwwUrl(page)) ELSE Raised
        ELSE Value(url)

\* clean_ads: the ad text before strip(); .get on a value that is no dict raises.
CliAdText(ad) ==
    LET ad_text == GetD(ad.adText, EmptyStr)
    IN  IF Truthy(ad_text) THEN Value(ad_text)
        ELSE LET snapshot == Or(Get(ad.snapshot), EmptyDict)
             IN  IF ~IsDict(snapshot) THEN Raised
                 ELSE LET body == Or(Get(snapshot.v), EmptyDict)
                      IN  IF ~IsDict(body) THEN Raised
                          ELSE Value(GetD(body.v, EmptyStr))

\* ad_text.strip() or "N/A"
StripOrNA(s) == IF Strip(s) # << >> THEN Strip(s) ELSE NA

\* clean_ads without its seen test.
CliAdmitsAgain(page, seen_) == Truthy(page)

\* clean_ads without its test that the page is set.
CliAdmitsUnnamed(page, seen_) == page \notin seen_

\* clean_ads: whether the record is appended.
CliAdmits(page, seen_) == Truthy(page) /\ page \notin seen_

Row(page, url, text) == [page_name |-> page, page_url |-> url, ad_text |-> text]

\* clean_ads: one iteration of the loop over data.
clean_ads_body(ad, seen_, clean_) ==
    LET page == Identity(ad)
        url == CliUrl(ad, page)
        text == CliAdText(ad)
    IN  IF url.raised \/ text.raised THEN Raised
        ELSE IF CliAdmits(page, seen_)
        THEN IF ~IsStr(text.v) THEN Raised
             ELSE [raised |-> FALSE, added |-> TRUE, seen |-> seen_ \cup {page},
                   clean |-> Append(clean_, Row(page, url.v, Str(StripOrNA(text.v.s))))]
        ELSE [raised |-> FALSE, added |-> FALSE, seen |-> seen_, clean |-> clean_]

\* ------------------------------------------------ the ad-search actor

NoRun == [t |-> "norun"]

\* What client.actor(...).call() may return: a run with a dataset id, or
\* one whose defaultDatasetId is missing, null or empty.
Runs == { Dict(Str(<<"ds">>)), Dict(Absent), Dict(None), Dict(EmptyStr) }

\* dataset_id = run.get("defaultDatasetId")
DatasetId(r) == Get(r.v)

\* run_actor_search without its test of the dataset id.
RunActorSearchUnchecked(r) == Value(DatasetId(r))

\* run_actor_search: raises when no dataset id came back.
RunActorSearch(r) ==
    IF ~Truthy(DatasetId(r)) THEN Raised ELSE Value(DatasetId(r))

NoFile == [exists |-> FALSE, rows |-> << >>]
File(rows) == [exists |-> TRUE, rows |-> rows]

\* What results/ads_cleaned.csv may hold before a run.
PriorFiles == { NoFile, File(<< Row(Str(<<"Z">>), Str(<<"u">>), Str(<<"old">>)) >>) }

\* ----------------------------------------- Phase1_scraper.py: main()

\* keyword and country are read; both are required.
main_input ==
    /\ variant = "cli" /\ pc = "input"
    /\ \E valid \in BOOLEAN :
          IF valid
          THEN pc' = "search" /\ UNCHANGED msgs
          ELSE pc' = "done" /\ msgs' = msgs \cup {"print: both required"}
    /\ UNCHANGED <<variant, run, items, idx, seen, clean, origin, stored, prior,
                   df, enriched, lookups, storedE>>

\* dataset_id = run_actor_search(fb_url), inside main's try.
run_actor_search ==
    /\ variant = "cli" /\ pc = "search"
    /\ \/ \E r \in Runs :
             /\ run' = r
             /\ IF RunActorSearch(r).raised
                THEN pc' = "done" /\ msgs' = msgs \cup {"print: error occurred"}
                ELSE pc' = "fetch" /\ UNCHANGED msgs
       \/ \* the call itself raises
          /\ pc' = "done" /\ msgs' = msgs \cup {"print: error occurred"}
          /\ UNCHANGED run
    /\ UNCHANGED <<variant, items, idx, seen, clean, origin, stored, prior,
                   df, enriched, lookups, storedE>>

\* raw_ads = fetch_dataset(dataset_id)
fetch_dataset ==
    /\ variant = "cli" /\ pc = "fetch"
    /\ \/ \E data \in SeqsUpTo(RawAds, MaxItems) :
             items' = data /\ pc' = "clean" /\ UNCHANGED msgs
       \/ \* the fetch raises
          /\ pc' = "done" /\ msgs' = msgs \cup {"print: error occurred"}
          /\ UNCHANGED items
    /\ UNCHANGED <<variant, run, idx, seen, clean, origin, stored, prior,
                   df, enriched, lookups, storedE>>

\* clean_ads: one pass of "for ad in data"; an exception leaves clean_ads
\* and is caught by main's except.
clean_ads_step ==
    /\ variant = "cli" /\ pc = "clean" /\ idx < Len(items)
    /\ LET res == clean_ads_body(items[idx + 1], seen, clean)
       IN  IF res.raised
           THEN /\ pc' = "done" /\ msgs' = msgs \cup {"print: error occurred"}
                /\ UNCHANGED <<idx, seen, clean, origin>>
           ELSE /\ idx' = idx + 1 /\ seen' = res.seen /\ clean' = res.clean
                /\ origin' = IF res.added THEN Append(origin, idx + 1) ELSE origin
                /\ UNCHANGED <<pc, msgs>>
    /\ UNCHANGED <<variant, run, items, stored, prior, df, enriched, lookups, storedE>>

\* return pd.DataFrame(clean), then df.to_csv("results/ads_cleaned.csv").
main_write ==
    /\ variant = "cli" /\ pc = "clean" /\ idx = Len(items)
    /\ stored' = File(clean)
    /\ pc' = "done" /\ msgs' = msgs \cup {"print: phase 1 complete"}
    /\ UNCHANGED <<variant, run, items, idx, seen, clean, origin, prior,
                   df, enriched, lookups, storedE>>

\* ------------------------------------ streamlit_UI.py: scrape_meta_ads

\* The ad text of one record; a snapshot or body that is no dict is
\* warned about, and .strip() on a text that is no str raises.
UiAdText(ad) ==
    LET ad_text == GetD(ad.adText, EmptyStr)
    IN  IF Truthy(ad_text) THEN [raised |-> FALSE, v |-> ad_text, warn |-> {}]
        ELSE LET snapshot == GetD(ad.snapshot, EmptyDict)
             IN  IF IsDict(snapshot)
                 THEN LET body == GetD(snapshot.v, EmptyDict)
                      IN  IF IsDict(body)
                          THEN LET text == GetD(body.v, EmptyStr)
                               IN  IF IsStr(text)
                                   THEN [raised |-> FALSE, v |-> Str(Strip(text.s)), warn |-> {}]
                                   ELSE [raised |-> TRUE, warn |-> {}]
                          ELSE [raised |-> FALSE, v |-> ad_text,
                                warn |-> {"warning: invalid body type"}]
                 ELSE [raised |-> FALSE, v |-> ad_text,
                       warn |-> {"warning: invalid snapshot type"}]

\* if not page or page in seen: continue
UiSkips(page, seen_) == ~Truthy(page) \/ page \in seen_

\* The seen set once a record passed the skip test: seen.add(page) comes
\* before the text is extracted and the row is built.
UiSeenAfter(page, seen_) == seen_ \cup {page}

\* One pass of "for ad in items", the try and its except included.
scrape_body(ad, seen_, clean_) ==
    LET page == Identity(ad)
        text == UiAdText(ad)
    IN  IF UiSkips(page, seen_)
        THEN [added |-> FALSE, seen |-> seen_, clean |-> clean_, warn |-> {}]
        ELSE IF text.raised \/ ~IsStr(page)
        THEN [added |-> FALSE, seen |-> UiSeenAfter(page, seen_), clean |-> clean_,
              warn |-> text.warn \cup {"warning: failed to process ad"}]
        ELSE [added |-> TRUE, seen |-> UiSeenAfter(page, seen_),
              clean |-> Append(clean_, Row(page, BareUrl(page), text.v)),
              warn |-> text.warn]

\* What scrape_meta_ads does with the run the actor call returned.
ScrapeDatasetId(r) ==
    IF ~Truthy(DatasetId(r)) THEN Raised ELSE Value(DatasetId(r))

\* run = client.actor(...).call(...); dataset_id = run.get(...)
scrape_call_actor ==
    /\ variant = "ui" /\ pc = "call"
    /\ \/ \E r \in Runs :
             /\ run' = r
             /\ IF ScrapeDatasetId(r).raised
                THEN pc' = "done" /\ msgs' = msgs \cup {"error: no dataset id"}
                ELSE pc' = "fetch" /\ UNCHANGED msgs
       \/ \* the call itself raises
          /\ pc' = "done" /\ msgs' = msgs \cup {"error: failed to scrape"}
          /\ UNCHANGED run
    /\ UNCHANGED <<variant, items, idx, seen, clean, origin, stored, prior,
                   df, enriched, lookups, storedE>>

\* items = list(client.dataset(dataset_id).iterate_items())
scrape_fetch ==
    /\ variant = "ui" /\ pc = "fetch"
    /\ \/ \E data \in SeqsUpTo(RawAds, MaxItems) :
             items' = data /\ pc' = "loop" /\ UNCHANGED msgs
       \/ \* the fetch raises
          /\ pc' = "done" /\ msgs' = msgs \cup {"error: failed to scrape"}
          /\ UNCHANGED items
    /\ UNCHANGED <<variant, run, idx, seen, clean, origin, stored, prior,
                   df, enriched, lookups, storedE>>

scrape_loop_step ==
    /\ variant = "ui" /\ pc = "loop" /\ idx < Len(items)
    /\ LET res == scrape_body(items[idx + 1], seen, clean)
       IN  /\ idx' = idx + 1 /\ seen' = res.seen /\ clean' = res.clean
           /\ origin' = IF res.added THEN Append(origin, idx + 1) ELSE origin
           /\ msgs' = msgs \cup res.warn
    /\ UNCHANGED <<variant, pc, run, items, stored, prior, df, enriched, lookups, storedE>>

\* df = pd.DataFrame(clean); written unless empty.
scrape_write ==
    /\ variant = "ui" /\ pc = "loop" /\ idx = Len(items)
    /\ IF clean # << >>
       THEN stored' = File(clean) /\ UNCHANGED msgs
       ELSE msgs' = msgs \cup {"warning: no ads scraped"} /\ UNCHANGED stored
    /\ pc' = "done"
    /\ UNCHANGED <<variant, run, items, idx, seen, clean, origin, prior,
                   df, enriched, lookups, storedE>>

\* ------------------------------------------- strict mode (spec 4.1-4.4)

\* The shortest body text strict mode accepts.
MinTextLen == 20

WordChars == {"a", "b", "h", "i", "x", "A", "B", "N", "Z", "_", "0", "7"}

\* [A-Za-z0-9_]
IsWordChar(c) == c \in WordChars

\* The template-placeholder marker, the two characters "{{".
HasPlaceholder(s) == \E i \in 1..(Len(s) - 1) : s[i] = "{" /\ s[i + 1] = "{"

\* One or more characters, none of them a word character.
AllNonWord(s) == s # << >> /\ \A i \in 1..Len(s) : ~IsWordChar(s[i])

\* A filter that only asks for some text.
StrictAcceptsAnyText(s) == s # << >>

\* QualityFilter, strict mode, on a trimmed body text.
StrictAccepts(s) ==
    ~(s = << >> \/ Len(s) < MinTextLen \/ HasPlaceholder(s) \/ AllNonWord(s))

\* FieldExtractor: the body text, trimmed; a level that is missing or has
\* the wrong shape gives the empty string.
StrictBodyText(ad) ==
    LET direct == Get(ad.adText)
        snapshot == Get(ad.snapshot)
        body == IF IsDict(snapshot) THEN Get(snapshot.v) ELSE None
        text == IF IsDict(body) THEN Get(body.v) ELSE None
    IN  IF IsStr(direct) /\ direct.s # << >> THEN Strip(direct.s)
        ELSE IF IsStr(text) THEN Strip(text.s)
        ELSE << >>

\* FieldExtractor: the identity string, or None.
StrictIdentity(ad) == IF IsStr(Identity(ad)) /\ Truthy(Identity(ad)) THEN Identity(ad) ELSE None

\* Pipeline, strict mode: extract, filter, admit, append.
strict_body(ad, seen_, clean_) ==
    LET page == StrictIdentity(ad)
        text == StrictBodyText(ad)
    IN  IF page = None \/ ~StrictAccepts(text) \/ page \in seen_
        THEN [added |-> FALSE, seen |-> seen_, clean |-> clean_]
        ELSE [added |-> TRUE, seen |-> seen_ \cup {page},
              clean |-> Append(clean_, Row(page, Or(Get(ad.pageUrl), WwwUrl(page)), Str(text)))]

RECURSIVE Rep(_, _)
Rep(c, n) == IF n = 0 THEN << >> ELSE <<c>> \o Rep(c, n - 1)

\* Raw records around the strict filter's limits.
StrictAds ==
    { Ad(Str(<<"A">>), Absent, Absent, Str(Rep("a", MinTextLen)), Absent),
      Ad(Str(<<"A">>), Absent, Absent, Str(Rep("a", MinTextLen - 1)), Absent),
      Ad(Str(<<"A">>), Absent, Absent, Str(<<" ">> \o Rep("a", MinTextLen - 1) \o <<" ">>), Absent),
      Ad(Str(<<"A">>), Absent, Absent, Str(<<"?", "?", "?">>), Absent),
      Ad(Absent, Str(<<"B">>), Absent, Absent, Nested(Str(<<" ">> \o Rep("b", MinTextLen + 1)))),
      Ad(Absent, Str(<<"B">>), Absent, Str(<<"{", "{">> \o Rep("a", MinTextLen)), Absent),
      Ad(Absent, Str(<<"B">>), Absent, Absent, Nested(Str(Rep("?", MinTextLen)))),
      Ad(Str(<<"B">>), Absent, Absent, Str(<<"a", "{">> \o Rep("?", MinTextLen)), Other),
      Ad(Str(<<"B">>), Absent, Absent, Absent, Other),
      Ad(Absent, None, Absent, Str(Rep("a", MinTextLen)), Absent) }

strict_input ==
    /\ variant = "strict" /\ pc = "input"
    /\ \E data \in SeqsUpTo(StrictAds, MaxItems) : items' = data
    /\ pc' = "loop"
    /\ UNCHANGED <<variant, run, idx, seen, clean, origin, stored, prior, msgs,
                   df, enriched, lookups, storedE>>

strict_step ==
    /\ variant = "strict" /\ pc = "loop" /\ idx < Len(items)
    /\ LET res == strict_body(items[idx + 1], seen, clean)
       IN  /\ idx' = idx + 1 /\ seen' = res.seen /\ clean' = res.clean
           /\ origin' = IF res.added THEN Append(origin, idx + 1) ELSE origin
    /\ UNCHANGED <<variant, pc, run, items, stored, prior, msgs,
                   df, enriched, lookups, storedE>>

\* The table is written to the clean-ads file.
strict_write ==
    /\ variant = "strict" /\ pc = "loop" /\ idx = Len(items)
    /\ stored' = File(clean)
    /\ pc' = "done"
    /\ UNCHANGED <<variant, run, items, idx, seen, clean, origin, prior, msgs,
                   df, enriched, lookups, storedE>>

\* ------------------------------ streamlit_UI.py: enrich_facebook_pages

Meta(website, email, phone, category, bio, address) ==
    [website |-> website, email |-> email, phone |-> phone,
     category |-> category, bio |-> bio, address |-> address]

\* The metadata records the page-metadata collaborator may return: fields
\* present, missing or null.
MetaRecords ==
    { Meta(Absent, Absent, Absent, Absent, Absent, Absent),
      Meta(Str(<<"w">>), Str(<<"e">>), Str(<<"7">>), Str(<<"c">>), EmptyStr, Absent),
      Meta(None, Str(<<"e">>), Absent, Absent, None, Absent) }

\* How one lookup ends: the call or the dataset read raises, the dataset
\* is empty, or result[0] is a metadata record.
Outcomes ==
    { [kind |-> "raises"], [kind |-> "empty"] }
        \cup { [kind |-> "data", data |-> m] : m \in MetaRecords }

\* The rows enrich_facebook_pages may be given: rows as scrape_meta_ads and
\* clean_ads build them, a repeated page, a name with spaces around it and
\* a name of spaces only. The page_name column holds strings.
CleanRows ==
    { Row(Str(<<"A">>), BareUrl(Str(<<"A">>)), Str(<<"h", "i">>)),
      Row(Str(<<"A">>), Str(<<"u">>), Str(<<"x">>)),
      Row(Str(<<" ", "A", " ">>), BareUrl(Str(<<" ", "A", " ">>)), Str(<< >>)),
      Row(Str(<<"B">>), WwwUrl(Str(<<"B">>)), Str(NA)),
      Row(Str(<<"A", " ", "B">>), WwwUrl(Str(<<"A", " ", "B">>)), Str(<<"x">>)),
      Row(Str(<<" ">>), BareUrl(Str(<<" ">>)), Str(<<"x">>)) }

\* page = row.get("page_name", "").strip()
EnrichKey(row) == Str(Strip(row.page_name.s))

\* if not page or page in seen: continue
EnrichSkips(page, seen_) == ~Truthy(page) \/ page \in seen_

\* The dict appended for result[0]; no ad_text, and the URL built anew.
EnrichedRow(page, fb_url, data) ==
    [page_name |-> page, page_url |-> fb_url,
     website |-> GetD(data.website, EmptyStr),
     email |-> GetD(data.email, EmptyStr),
     phone |-> GetD(data.phone, EmptyStr),
     category |-> GetD(data.category, EmptyStr),
     bio |-> GetD(data.bio, EmptyStr),
     address |-> GetD(data.address, EmptyStr)]

\* The lookup's exception leaving the loop, as without the try.
EnrichExceptPropagates(seen_, enriched_) ==
    [aborted |-> TRUE, looked |-> TRUE, seen |-> seen_, enriched |-> enriched_, warn |-> {}]

\* except Exception as e: st.warning(...); the loop goes on.
EnrichExcept(seen_, enriched_) ==
    [aborted |-> FALSE, looked |-> TRUE, seen |-> seen_, enriched |-> enriched_,
     warn |-> {"warning: failed to scrape"}]

\* if result: enriched.append(...)
EnrichResult(page, seen_, enriched_, outcome) ==
    IF outcome.kind = "data"
    THEN [aborted |-> FALSE, looked |-> TRUE, seen |-> seen_,
          enriched |-> Append(enriched_, EnrichedRow(page, WwwUrl(page), outcome.data)),
          warn |-> {}]
    ELSE [aborted |-> FALSE, looked |-> TRUE, seen |-> seen_, enriched |-> enriched_,
          warn |-> {}]

\* One pass of "for _, row in df.iterrows()".
enrich_body(row, seen_, enriched_, outcome) ==
    LET page == EnrichKey(row)
    IN  IF EnrichSkips(page, seen_)
        THEN [aborted |-> FALSE, looked |-> FALSE, seen |-> seen_, enriched |-> enriched_,
              warn |-> {}]
        ELSE IF outcome.kind = "raises"
        THEN EnrichExcept(seen_ \cup {page}, enriched_)
        ELSE EnrichResult(page, seen_ \cup {page}, enriched_, outcome)

enrich_step ==
    /\ variant = "enrich" /\ pc = "loop" /\ idx < Len(df)
    /\ \E outcome \in Outcomes :
         LET res == enrich_body(df[idx + 1], seen, enriched, outcome)
         IN  /\ seen' = res.seen /\ enriched' = res.enriched
             /\ msgs' = msgs \cup res.warn
             /\ lookups' = IF res.looked
                           THEN Append(lookups, [row |-> idx + 1, key |-> EnrichKey(df[idx + 1]),
                                                 outcome |-> outcome,
                                                 appended |-> Len(res.enriched) > Len(enriched)])
                           ELSE lookups
             /\ IF res.aborted
                THEN pc' = "aborted" /\ UNCHANGED idx
                ELSE idx' = idx + 1 /\ UNCHANGED pc
    /\ UNCHANGED <<variant, run, items, clean, origin, stored, prior, df, storedE>>

\* enriched_df = pd.DataFrame(enriched); written unless empty.
enrich_write ==
    /\ variant = "enrich" /\ pc = "loop" /\ idx = Len(df)
    /\ IF enriched # << >>
       THEN storedE' = File(enriched) /\ UNCHANGED msgs
       ELSE msgs' = msgs \cup {"warning: no pages enriched"} /\ UNCHANGED storedE
    /\ pc' = "done"
    /\ UNCHANGED <<variant, run, items, idx, seen, clean, origin, stored, prior,
                   df, enriched, lookups>>

InitEnrich ==
    /\ variant = "enrich" /\ pc = "loop"
    /\ run = NoRun
    /\ items = << >> /\ idx = 0 /\ seen = {} /\ clean = << >> /\ origin = << >>
    /\ stored = NoFile /\ prior = stored
    /\ msgs = {}
    /\ df \in SeqsUpTo(CleanRows, MaxRows)
    /\ enriched = << >> /\ lookups = << >> /\ storedE = NoFile

NextEnrich ==
    \/ enrich_step
    \/ enrich_write

SpecEnrich == InitEnrich /\ [][NextEnrich]_vars

\* ------------------------------------------------------ specification

Init ==
    /\ variant \in {"cli", "ui"}
    /\ pc = IF variant = "ui" THEN "call" ELSE "input"
    /\ run = NoRun
    /\ items = << >> /\ idx = 0 /\ seen = {} /\ clean = << >> /\ origin = << >>
    /\ stored \in PriorFiles /\ prior = stored
    /\ msgs = {}
    /\ df = << >> /\ enriched = << >> /\ lookups = << >> /\ storedE = NoFile

Next ==
    \/ main_input
    \/ run_actor_search
    \/ fetch_dataset
    \/ clean_ads_step
    \/ main_write
    \/ scrape_call_actor
    \/ scrape_fetch
    \/ scrape_loop_step
    \/ scrape_write

Spec == Init /\ [][Next]_vars

\* The strict-mode pipeline alone.
InitStrict ==
    /\ variant = "strict" /\ pc = "input"
    /\ run = NoRun
    /\ items = << >> /\ idx = 0 /\ seen = {} /\ clean = << >> /\ origin = << >>
    /\ stored \in PriorFiles /\ prior = stored
    /\ msgs = {}
    /\ df = << >> /\ enriched = << >> /\ lookups = << >> /\ storedE = NoFile

NextStrict ==
    \/ strict_input
    \/ strict_step
    \/ strict_write

SpecStrict == InitStrict /\ [][NextStrict]_vars

\* ----------------------------------------------------------- properties

Rows == 1..Len(clean)

\* The record at k is the first of the input with its identity.
IsFirst(k) == \A j \in 1..(k - 1) : Identity(items[j]) # Identity(items[k])

\* Where the identity p first occurs in the input.
FirstSeen(p) == CHOOSE k \in 1..Len(items) : Identity(items[k]) = p /\ IsFirst(k)

\* C1: the clean loop's output (clean_ads, scrape_meta_ads) holds no two
\* rows with equal page_name, each row's page_name is the identity of a
\* record consumed, and the rows stand in the order in which their
\* identities first occur in the input.
C1_UniqueInFirstSeenOrder ==
    \A i \in Rows :
        /\ \E k \in 1..idx : Identity(items[k]) = clean[i].page_name
        /\ \A j \in Rows :
             i < j => /\ clean[i].page_name # clean[j].page_name
                      /\ FirstSeen(clean[i].page_name) < FirstSeen(clean[j].page_name)

\* A finished run over three records, the third repeating the first's
\* identity, that gave two rows.
C1_Witness ==
    /\ pc = "done" /\ Len(items) = 3 /\ idx = 3 /\ Len(clean) = 2
    /\ Identity(items[1]) = Identity(items[3])
    /\ Identity(items[2]) # Identity(items[1])

\* The actor's run came back without a dataset id.
NoDatasetId == run # NoRun /\ ~Truthy(DatasetId(run))

\* C5: when the ad-search collaborator returns no dataset id, Phase 1
\* stops (main and scrape_meta_ads): nothing is fetched or cleaned, the
\* failure is reported, and results/ads_cleaned.csv is as before the run.
C5_NoDatasetAborts ==
    NoDatasetId =>
        /\ pc = "done"
        /\ items = << >> /\ idx = 0 /\ clean = << >> /\ seen = {}
        /\ stored = prior
        /\ msgs \cap {"print: error occurred", "error: no dataset id"} # {}

\* main stopped for a missing dataset id while a clean-ads file existed.
C5_Witness ==
    /\ NoDatasetId /\ pc = "done" /\ prior.exists /\ stored = prior
    /\ variant = "cli"

\* Neither pageName nor page_name holds a non-empty value.
LacksIdentity(ad) ==
    /\ ad.pageName \in {Absent, None, EmptyStr}
    /\ ad.page_name \in {Absent, None, EmptyStr}

\* C6: a raw record lacking both identity fields (missing, null or empty)
\* has no identity and gives no row, whatever its text and URL fields.
C6_NoIdentityNoRow ==
    \A k \in 1..Len(items) :
        LacksIdentity(items[k]) =>
            /\ ~Truthy(Identity(items[k]))
            /\ \A i \in 1..Len(origin) : origin[i] # k
            /\ \A i \in Rows : clean[i].page_name # Identity(items[k])

\* A finished run that consumed a record without identity, carrying a text
\* and a URL, and still gave a row for another record.
C6_Witness ==
    /\ pc = "done" /\ clean # << >> /\ idx = Len(items)
    /\ \E k \in 1..Len(items) :
         /\ LacksIdentity(items[k])
         /\ Truthy(Get(items[k].adText)) /\ Truthy(Get(items[k].pageUrl))

\* C7: in strict mode no row's ad_text is untrimmed, empty, shorter than
\* 20 characters, holds "{{", or is made of non-word characters only.
C7_StrictRowsPassFilter ==
    variant = "strict" =>
        \A i \in Rows :
            LET text == clean[i].ad_text.s
            IN  /\ text = Strip(text)
                /\ text # << >>
                /\ Len(text) >= 20
                /\ \A n \in 1..(Len(text) - 1) : ~(text[n] = "{" /\ text[n + 1] = "{")
                /\ \E n \in 1..Len(text) : IsWordChar(text[n])

\* A finished strict run that kept one record and rejected another, whose
\* identity was never admitted, for its text.
C7_Witness ==
    /\ variant = "strict" /\ pc = "done" /\ clean # << >>
    /\ \E k \in 1..Len(items) :
         Truthy(Identity(items[k])) /\ Identity(items[k]) \notin seen

\* The key at row k of df, looked up at its first occurrence.
FirstOfKey(k) ==
    /\ Truthy(EnrichKey(df[k]))
    /\ \A j \in 1..(k - 1) : EnrichKey(df[j]) # EnrichKey(df[k])

\* C2: whatever the lookups do (raise, return nothing, return data), the
\* enrichment is never aborted: the loop can always go on until it has
\* consumed every row, each row whose key was not seen before has its
\* lookup invoked, and no key is looked up twice.
C2_LookupFailureNeverAborts ==
    /\ pc # "aborted"
    /\ pc = "done" => idx = Len(df)
    /\ pc # "done" => ENABLED NextEnrich
    /\ \A k \in 1..idx : FirstOfKey(k) => \E n \in 1..Len(lookups) : lookups[n].row = k
    /\ \A a, b \in 1..Len(lookups) : a < b => lookups[a].key # lookups[b].key

\* A finished run over three rows whose first lookup raised and whose
\* second, for a later row, returned data; one row was a repeat.
C2_Witness ==
    /\ pc = "done" /\ Len(df) = 3 /\ Len(lookups) = 2
    /\ lookups[1].outcome.kind = "raises"
    /\ lookups[2].outcome.kind = "data"
    /\ Len(enriched) = 1

\* C3 as claimed: a row whose lookup raised or returned nothing is not in
\* the output, and every row whose lookup returned a metadata record is,
\* with website, email and phone that are not null.
C3_Claim ==
    \A n \in 1..Len(lookups) :
        LET hits == { i \in 1..Len(enriched) : enriched[i].page_name = lookups[n].key }
        IN  IF lookups[n].outcome.kind = "data"
            THEN \E i \in hits : /\ enriched[i].website # None
                                 /\ enriched[i].email # None
                                 /\ enriched[i].phone # None
            ELSE hits = {}

\* A text field of the nested structure is present with the wrong shape:
\* a snapshot or body that is no mapping, or a null text.
Malformed(ad) ==
    /\ ~Truthy(GetD(ad.adText, EmptyStr))
    /\ \/ ad.snapshot = Other
       \/ IsDict(ad.snapshot) /\ ad.snapshot.v = Other
       \/ IsDict(ad.snapshot) /\ IsDict(ad.snapshot.v) /\ ad.snapshot.v.v = None

\* C4 as claimed: with a malformed record in the input the clean run still
\* goes through every record, and the malformed record itself, when it is
\* the first with its identity, gives a row with an empty body text.
C4_Claim ==
    \A k \in 1..Len(items) :
        Malformed(items[k]) =>
            /\ pc = "done" => idx = Len(items)
            /\ (k <= idx /\ IsStr(Identity(items[k])) /\ Truthy(Identity(items[k])) /\ IsFirst(k))
                 => \E i \in Rows : origin[i] = k /\ clean[i].ad_text \in {EmptyStr, Str(NA)}

\* The body text of a record: the direct ad text, else the nested one.
BodyText(ad) ==
    IF IsStr(ad.adText) /\ ad.adText.s # << >> THEN ad.adText.s
    ELSE IF IsDict(ad.snapshot) /\ IsDict(ad.snapshot.v) /\ IsStr(ad.snapshot.v.v)
         THEN ad.snapshot.v.v.s
         ELSE << >>

\* C8 as claimed: every consumed record that is the first with its
\* identity has a row, whose ad_text is the trimmed body text, or "N/A"
\* when that is empty.
C8_Claim ==
    \A k \in 1..idx :
        (IsStr(Identity(items[k])) /\ Truthy(Identity(items[k])) /\ IsFirst(k))
            => \E i \in Rows :
                 /\ origin[i] = k
                 /\ clean[i].ad_text =
                        Str(IF Strip(BodyText(items[k])) # << >>
                            THEN Strip(BodyText(items[k])) ELSE NA)

\* C9 as claimed: every enriched row is a row of df with fields added:
\* page_name, page_url and ad_text are those of the row it comes from.
C9_Claim ==
    \A i \in 1..Len(enriched) :
        \E k \in 1..Len(df) :
            /\ enriched[i].page_name = df[k].page_name
            /\ enriched[i].page_url = df[k].page_url
            /\ "ad_text" \in DOMAIN enriched[i]
            /\ enriched[i].ad_text = df[k].ad_text

\* C10 as claimed: after any prefix of the input the seen keys (the
\* strings among them) are the page_name values of the rows, so that every
\* identity consumed so far has its row.
C10_Claim ==
    /\ { p \in seen : IsStr(p) } = { clean[i].page_name : i \in Rows }
    /\ \A k \in 1..idx :
         (IsStr(Identity(items[k])) /\ Truthy(Identity(items[k])))
             => \E i \in Rows : clean[i].page_name = Identity(items[k])

====
